---- MODULE Spec2Model ----
(***************************************************************************)
(* Model of video_splitter.py: parse_timestamp_ranges (the range-spec      *)
(* parser), split_and_combine_video (the clip-extraction orchestration)    *)
(* and the part of main that feeds the first into the second.              *)
(*                                                                         *)
(* Text is a sequence of one-character strings.  A timestamp is a decimal  *)
(* fraction [n |-> mantissa, d |-> power of ten] kept in lowest decimal    *)
(* form, so that equal numbers are equal records; d = 0 marks a value that *)
(* is not a number.  The decimal literals of the model are short enough    *)
(* that Python's float() keeps their order and their equalities.           *)
(***************************************************************************)
EXTENDS Integers, Sequences, FiniteSets, TLC

\* ------------------------------------------------------------------ bounds
MaxTokens == 2      \* tokens in the interior of a range-spec text
MaxRanges == 2      \* ranges in a sequence passed directly by a caller
MaxT == 2           \* largest whole-second timestamp of such a range
MaxDur == 2         \* largest source duration, in whole seconds

\* ----------------------------------------------------------------- numbers
Num(k) == [n |-> k, d |-> 1]
NotNum == [n |-> 0, d |-> 0]
IsNumber(v) == v.d # 0

RECURSIVE Norm(_)
Norm(v) ==
    IF v.d > 1 /\ v.n % 10 = 0
    THEN Norm([n |-> v.n \div 10, d |-> v.d \div 10])
    ELSE v

Less(a, b) == a.n * b.d < b.n * a.d
Leq(a, b) == a.n * b.d <= b.n * a.d

\* ------------------------------------------------------------- text helpers
IsSpace(c) == c = " "
IsDigit(c) == c \in {"0", "1", "2", "3", "4", "5", "6", "7", "8", "9"}
DigitVal(c) ==
    CASE c = "0" -> 0 [] c = "1" -> 1 [] c = "2" -> 2 [] c = "3" -> 3
      [] c = "4" -> 4 [] c = "5" -> 5 [] c = "6" -> 6 [] c = "7" -> 7
      [] c = "8" -> 8 [] c = "9" -> 9

RECURSIVE LStrip(_)
LStrip(s) == IF Len(s) > 0 /\ IsSpace(s[1]) THEN LStrip(Tail(s)) ELSE s

RECURSIVE RStrip(_)
RStrip(s) ==
    IF Len(s) > 0 /\ IsSpace(s[Len(s)])
    THEN RStrip(SubSeq(s, 1, Len(s) - 1))
    ELSE s

\* str.strip()
Strip(s) == RStrip(LStrip(s))

StartsWith(s, c) == Len(s) > 0 /\ s[1] = c
EndsWith(s, c) == Len(s) > 0 /\ s[Len(s)] = c

\* str.count(c)
RECURSIVE Count(_, _)
Count(s, c) ==
    IF s = <<>> THEN 0
    ELSE (IF s[1] = c THEN 1 ELSE 0) + Count(Tail(s), c)

\* --------------------------------------------------- the pattern of line 206
\* \s* from position p: the position of the first character that is no space.
RECURSIVE SkipSpaces(_, _)
SkipSpaces(s, p) ==
    IF p <= Len(s) /\ IsSpace(s[p]) THEN SkipSpaces(s, p + 1) ELSE p

\* [0-9]* from position p.
RECURSIVE SkipDigits(_, _)
SkipDigits(s, p) ==
    IF p <= Len(s) /\ IsDigit(s[p]) THEN SkipDigits(s, p + 1) ELSE p

\* -?(?:[0-9]+\.?[0-9]*|\.[0-9]+) at position p: the position after the
\* number, or 0 when there is none.  The quantifiers are greedy; a shorter
\* match never helps, since the character after a shorter match is a digit
\* or a dot, which neither \s* nor the comma nor the parenthesis accepts.
MatchNum(s, p) ==
    LET q == IF p <= Len(s) /\ s[p] = "-" THEN p + 1 ELSE p
    IN  IF q <= Len(s) /\ IsDigit(s[q])
        THEN LET r == SkipDigits(s, q)
                 t == IF r <= Len(s) /\ s[r] = "." THEN r + 1 ELSE r
             IN  SkipDigits(s, t)
        ELSE IF q + 1 <= Len(s) /\ s[q] = "." /\ IsDigit(s[q + 1])
        THEN SkipDigits(s, q + 1)
        ELSE 0

NoMatch == [ok |-> FALSE, start_str |-> <<>>, end_str |-> <<>>, next |-> 0]

\* The whole pattern tried at position p.
MatchAt(s, p) ==
    IF ~(p <= Len(s) /\ s[p] = "(") THEN NoMatch
    ELSE
    LET a == SkipSpaces(s, p + 1)
        b == MatchNum(s, a)
    IN  IF b = 0 THEN NoMatch
        ELSE
        LET c == SkipSpaces(s, b)
        IN  IF ~(c <= Len(s) /\ s[c] = ",") THEN NoMatch
            ELSE
            LET d == SkipSpaces(s, c + 1)
                e == MatchNum(s, d)
            IN  IF e = 0 THEN NoMatch
                ELSE
                LET f == SkipSpaces(s, e)
                IN  IF ~(f <= Len(s) /\ s[f] = ")") THEN NoMatch
                    ELSE [ok |-> TRUE,
                          start_str |-> SubSeq(s, a, b - 1),
                          end_str |-> SubSeq(s, d, e - 1),
                          next |-> f + 1]

\* re.findall(pattern, s): the non-overlapping matches, scanning left to
\* right from position p; each match is the pair of its two groups.
RECURSIVE FindAll(_, _)
FindAll(s, p) ==
    IF p > Len(s) THEN <<>>
    ELSE LET m == MatchAt(s, p)
         IN  IF m.ok
             THEN <<[start_str |-> m.start_str, end_str |-> m.end_str]>>
                  \o FindAll(s, m.next)
             ELSE FindAll(s, p + 1)

\* float(str) of a string the pattern matched: sign, digits, optional dot,
\* digits.  acc is the mantissa read so far, den the power of ten of the
\* digits read after the dot (0 before the dot).
RECURSIVE ReadDecimal(_, _, _, _)
ReadDecimal(s, p, acc, den) ==
    IF p > Len(s) THEN [n |-> acc, d |-> IF den = 0 THEN 1 ELSE den]
    ELSE IF s[p] = "." THEN ReadDecimal(s, p + 1, acc, 1)
    ELSE ReadDecimal(s, p + 1, acc * 10 + DigitVal(s[p]), den * 10)

ToFloat(s) ==
    LET neg == StartsWith(s, "-")
        v == ReadDecimal(s, IF neg THEN 2 ELSE 1, 0, 0)
    IN  Norm([n |-> IF neg THEN 0 - v.n ELSE v.n, d |-> v.d])

\* ---------------------------------------------------- parse_timestamp_ranges
ParseOk(r) == [kind |-> "ok", msg |-> "", index |-> 0, ranges |-> r]
ParseError(m, i) == [kind |-> "err", msg |-> m, index |-> i, ranges |-> <<>>]

\* The check of line 195 with its second half forgotten.
BracketsOpenOnly(s) == StartsWith(s, "[")

\* Line 195: startswith('[') and endswith(']').
BracketsOK(s) == StartsWith(s, "[") /\ EndsWith(s, "]")

\* Lines 214-215 left out: whatever the pattern skipped is dropped.
IntegrityUnchecked(matches, inner) == TRUE

\* Lines 214-215: as many matches as opening parentheses.
IntegrityOK(matches, inner) == Len(matches) = Count(inner, "(")

\* Lines 226-231 with line 230 written start > end.
RangeErrorAllowsEqual(start, end) ==
    IF Less(start, Num(0)) THEN "Start time cannot be negative"
    ELSE IF Less(end, Num(0)) THEN "End time cannot be negative"
    ELSE IF Less(end, start) THEN "Start time must be less than end time"
    ELSE ""

\* Lines 226-231: the ValueError raised inside the try block for one pair,
\* "" when the pair is accepted.
RangeError(start, end) ==
    IF Less(start, Num(0)) THEN "Start time cannot be negative"
    ELSE IF Less(end, Num(0)) THEN "End time cannot be negative"
    ELSE IF ~Less(start, end) THEN "Start time must be less than end time"
    ELSE ""

\* Lines 235-236: the handler that encloses lines 222-233 catches every
\* ValueError raised there, the three of RangeError included, and raises
\* the error that reaches the caller.
ExceptValueError(raised) == "Invalid timestamp values, must be valid numbers"

\* Lines 219-238: the loop over the matches, from match i on.
RECURSIVE ConvertMatches(_, _, _)
ConvertMatches(matches, i, acc) ==
    IF i > Len(matches) THEN ParseOk(acc)
    ELSE LET start == ToFloat(matches[i].start_str)
             end == ToFloat(matches[i].end_str)
             raised == RangeError(start, end)
         IN  IF raised # ""
             THEN ParseError(ExceptValueError(raised), i)
             ELSE ConvertMatches(matches, i + 1, Append(acc, <<start, end>>))

\* Line 199: the text between the brackets, stripped.
Inner(stripped) == Strip(SubSeq(stripped, 2, Len(stripped) - 1))

parse_timestamp_ranges(ranges_str) ==
    LET stripped == Strip(ranges_str)
    IN  IF stripped = <<>>
        THEN ParseError("Timestamp ranges cannot be empty", 0)
        ELSE IF ~BracketsOK(stripped)
        THEN ParseError("Timestamp ranges must be enclosed in square brackets", 0)
        ELSE
        LET inner == Inner(stripped)
        IN  IF inner = <<>>
            THEN ParseError("At least one timestamp range must be provided inside brackets", 0)
            ELSE
            LET matches == FindAll(inner, 1)
            IN  IF matches = <<>>
                THEN ParseError("Invalid timestamp format", 0)
                ELSE IF ~IntegrityOK(matches, inner)
                THEN ParseError("Malformed timestamp ranges", 0)
                ELSE ConvertMatches(matches, 1, <<>>)

\* ------------------------------------------------------------------ inputs
\* The pieces range-spec texts are built from: well-formed tuples (plain,
\* spaced, fractional, signed zero), tuples that break a semantic rule,
\* tuples the pattern does not match, and loose punctuation.
Tokens ==
    { <<"(", "0", ",", "1", ")">>,
      <<"(", "1", ",", "3", ")">>,
      <<"(", ".", "5", ",", "1", ".", ")">>,
      <<"(", " ", "1", ".", "5", " ", ",", " ", "2", " ", ")">>,
      <<"(", "-", "0", ",", "1", ")">>,
      <<"(", "1", ",", "1", ")">>,
      <<"(", "2", ",", "1", ")">>,
      <<"(", "-", "1", ",", "2", ")">>,
      <<"(", "0", ",", "-", "1", ")">>,
      <<"(", "x", ")">>,
      <<"(", "1", ".", "2", ".", "3", ",", "4", ")">>,
      <<"(">>, <<")">>, <<",">>, <<" ">> }

RECURSIVE Bodies(_)
Bodies(k) ==
    IF k = 0 THEN {<<>>}
    ELSE LET shorter == Bodies(k - 1)
         IN  shorter \cup {b \o t : b \in shorter, t \in Tokens}

Leads == {<<>>, <<"[">>, <<" ", "[">>}
Trails == {<<>>, <<"]">>, <<"]", " ">>}

Texts == {l \o b \o t : l \in Leads, b \in Bodies(MaxTokens), t \in Trails}

\* The ranges a caller other than main may pass: whole seconds in any
\* order, and values that are not numbers.
ApiPairs ==
    {<<Num(a), Num(b)>> : a \in 0..MaxT, b \in 0..MaxT}
        \cup {<<NotNum, Num(1)>>, <<Num(0), NotNum>>}

ApiRanges == UNION {[1..k -> ApiPairs] : k \in 0..MaxRanges}

Durations == {Num(k) : k \in 1..MaxDur}

\* ------------------------------------------------------------------- state
VARIABLES
    mode,               \* "cli": main parses a text; "api": a direct call
    text,               \* args.timestamp_ranges of main
    parsed,             \* what parse_timestamp_ranges gave main
    timestamp_ranges,   \* the argument of split_and_combine_video
    pc,                 \* the next step of main / split_and_combine_video
    total_duration,     \* video.duration, once read
    video,              \* the source clip: "none", "open", "closed"
    clips,              \* the list clips: [start, end, closed] per subclip
    final_video,        \* the concatenated clip: "none", "open", "closed"
    concatenated,       \* the <<start, end>> list given to concatenate_videoclips
    i,                  \* the index of the range the loop of line 126 is at
    outcome,            \* "" while running, "returned", or the error raised
    calls               \* the calls made to moviepy so far, in order

vars == <<mode, text, parsed, timestamp_ranges, pc, total_duration, video,
          clips, final_video, concatenated, i, outcome, calls>>

NoParse == [kind |-> "none", msg |-> "", index |-> 0, ranges |-> <<>>]
Call(op, a, b) == [op |-> op, start |-> a, end |-> b]
Op(op) == Call(op, Num(0), Num(0))

InitCall ==
    /\ parsed = NoParse
    /\ total_duration = Num(0)
    /\ video = "none"
    /\ clips = <<>>
    /\ final_video = "none"
    /\ concatenated = <<>>
    /\ i = 0
    /\ outcome = ""
    /\ calls = <<>>

Init ==
    /\ \/ /\ mode = "cli"
          /\ text \in Texts
          /\ timestamp_ranges = <<>>
          /\ pc = "main"
       \/ /\ mode = "api"
          /\ text = <<>>
          /\ timestamp_ranges \in ApiRanges
          /\ pc = "validate_input"
    /\ InitCall

\* An exception leaves split_and_combine_video: `except Exception` at line
\* 167 prints and re-raises, and nothing is closed on the way out.
Raise(err) ==
    /\ pc' = "raised"
    /\ outcome' = err

\* --------------------------------------------------------------------- main
\* Lines 280-294: parse the argument; a ValueError ends main (line 298),
\* otherwise the ranges go to split_and_combine_video.
Main ==
    /\ pc = "main"
    /\ parsed' = parse_timestamp_ranges(text)
    /\ IF parsed'.kind = "ok"
       THEN /\ timestamp_ranges' = parsed'.ranges
            /\ pc' = "validate_input"
            /\ outcome' = outcome
       ELSE /\ timestamp_ranges' = timestamp_ranges
            /\ pc' = "exit"
            /\ outcome' = parsed'.msg
    /\ UNCHANGED <<mode, text, total_duration, video, clips, final_video,
                   concatenated, i, calls>>

\* -------------------------------------------------- split_and_combine_video
PathErrors == {"ValueError", "FileNotFoundError", "PermissionError"}

\* Line 105: validate_input_path returns or raises, as the file system says.
ValidateInput ==
    /\ pc = "validate_input"
    /\ \/ /\ pc' = "validate_output"
          /\ outcome' = outcome
       \/ \E e \in PathErrors : Raise(e)
    /\ UNCHANGED <<mode, text, parsed, timestamp_ranges, total_duration, video,
                   clips, final_video, concatenated, i, calls>>

\* Line 106: validate_output_path.
ValidateOutput ==
    /\ pc = "validate_output"
    /\ \/ /\ pc' = "check_ranges"
          /\ outcome' = outcome
       \/ \E e \in PathErrors : Raise(e)
    /\ UNCHANGED <<mode, text, parsed, timestamp_ranges, total_duration, video,
                   clips, final_video, concatenated, i, calls>>

\* Lines 109-115 without the test of line 109.
RangesErrorIgnoresEmpty(ranges) ==
    IF \E k \in 1..Len(ranges) :
           ~IsNumber(ranges[k][1]) \/ ~IsNumber(ranges[k][2])
    THEN "Times must be numbers"
    ELSE ""

\* Lines 109-115: the empty list and the values that are not numbers.
RangesError(ranges) ==
    IF ranges = <<>> THEN "At least one timestamp range must be provided"
    ELSE IF \E k \in 1..Len(ranges) :
                ~IsNumber(ranges[k][1]) \/ ~IsNumber(ranges[k][2])
    THEN "Times must be numbers"
    ELSE ""

CheckRanges ==
    /\ pc = "check_ranges"
    /\ IF RangesError(timestamp_ranges) # ""
       THEN Raise(RangesError(timestamp_ranges))
       ELSE pc' = "open" /\ outcome' = outcome
    /\ UNCHANGED <<mode, text, parsed, timestamp_ranges, total_duration, video,
                   clips, final_video, concatenated, i, calls>>

\* Lines 120-124: VideoFileClip(path) opens the source or raises; clips = [],
\* total_duration = video.duration.
OpenVideo ==
    /\ pc = "open"
    /\ calls' = Append(calls, Op("open"))
    /\ \/ /\ \E dur \in Durations : total_duration' = dur
          /\ video' = "open"
          /\ i' = 1
          /\ pc' = "loop"
          /\ outcome' = outcome
       \/ /\ Raise("ProcessingError")
          /\ UNCHANGED <<total_duration, video, i>>
    /\ UNCHANGED <<mode, text, parsed, timestamp_ranges, clips, final_video,
                   concatenated>>

\* Line 128 written start_time > total_duration.
ShouldSkipStrictlyBeyond(start_time, duration) == Less(duration, start_time)

\* Line 128: start_time >= total_duration.
ShouldSkip(start_time, duration) == ~Less(start_time, duration)

\* Lines 133-135 left out: the end is passed on as given.
ClampEndNever(end_time, duration) == end_time

\* Lines 133-135: end_time > total_duration gives total_duration.
ClampEnd(end_time, duration) ==
    IF Less(duration, end_time) THEN duration ELSE end_time

\* Lines 126-139: one iteration of the loop, for range i: skip it, or clamp
\* its end and ask the source for the subclip, which it gives or refuses.
ExtractClip ==
    /\ pc = "loop"
    /\ i <= Len(timestamp_ranges)
    /\ LET start_time == timestamp_ranges[i][1]
           end_time == ClampEnd(timestamp_ranges[i][2], total_duration)
       IN  IF ShouldSkip(start_time, total_duration)
           THEN /\ i' = i + 1
                /\ UNCHANGED <<pc, outcome, clips, calls>>
           ELSE /\ calls' = Append(calls, Call("subclip", start_time, end_time))
                /\ \/ /\ clips' = Append(clips, [start |-> start_time,
                                                 end |-> end_time,
                                                 closed |-> FALSE])
                      /\ i' = i + 1
                      /\ UNCHANGED <<pc, outcome>>
                   \/ /\ Raise("ProcessingError")
                      /\ UNCHANGED <<clips, i>>
    /\ UNCHANGED <<mode, text, parsed, timestamp_ranges, total_duration, video,
                   final_video, concatenated>>

\* Lines 141-142 left out: an empty list goes on to concatenation.
CheckClipsNeverFails ==
    /\ pc = "loop"
    /\ i > Len(timestamp_ranges)
    /\ pc' = "concatenate"
    /\ UNCHANGED <<mode, text, parsed, timestamp_ranges, total_duration, video,
                   clips, final_video, concatenated, i, outcome, calls>>

\* Lines 141-142: after the loop, no clip at all is an error.
CheckClips ==
    /\ pc = "loop"
    /\ i > Len(timestamp_ranges)
    /\ IF clips = <<>>
       THEN Raise("No valid clips were extracted from the video")
       ELSE pc' = "concatenate" /\ outcome' = outcome
    /\ UNCHANGED <<mode, text, parsed, timestamp_ranges, total_duration, video,
                   clips, final_video, concatenated, i, calls>>

\* Line 146: concatenate_videoclips(clips).
Concatenate ==
    /\ pc = "concatenate"
    /\ calls' = Append(calls, Op("concatenate"))
    /\ concatenated' = [k \in 1..Len(clips) |-> <<clips[k].start, clips[k].end>>]
    /\ \/ /\ final_video' = "open"
          /\ pc' = "write"
          /\ outcome' = outcome
       \/ /\ Raise("ProcessingError")
          /\ UNCHANGED final_video
    /\ UNCHANGED <<mode, text, parsed, timestamp_ranges, total_duration, video,
                   clips, i>>

\* Line 159 moved above line 150: the source is closed, then written from.
WriteOutputAfterClose ==
    /\ pc = "write"
    /\ calls' = calls \o <<Op("close_video"), Op("write")>>
    /\ video' = "closed"
    /\ \/ pc' = "close_final" /\ outcome' = outcome
       \/ Raise("ProcessingError")
    /\ UNCHANGED <<mode, text, parsed, timestamp_ranges, total_duration, clips,
                   final_video, concatenated, i>>

\* Lines 150-156: final_video.write_videofile(...).
WriteOutput ==
    /\ pc = "write"
    /\ calls' = Append(calls, Op("write"))
    /\ \/ pc' = "close_video" /\ outcome' = outcome
       \/ Raise("ProcessingError")
    /\ UNCHANGED <<mode, text, parsed, timestamp_ranges, total_duration, video,
                   clips, final_video, concatenated, i>>

\* Line 159: video.close().
CloseVideo ==
    /\ pc = "close_video"
    /\ calls' = Append(calls, Op("close_video"))
    /\ video' = "closed"
    /\ pc' = "close_final"
    /\ UNCHANGED <<mode, text, parsed, timestamp_ranges, total_duration, clips,
                   final_video, concatenated, i, outcome>>

\* Line 160: final_video.close().
CloseFinal ==
    /\ pc = "close_final"
    /\ calls' = Append(calls, Op("close_final"))
    /\ final_video' = "closed"
    /\ pc' = "close_clips"
    /\ i' = 1
    /\ UNCHANGED <<mode, text, parsed, timestamp_ranges, total_duration, video,
                   clips, concatenated, outcome>>

\* Lines 161-162: clip.close() for the next clip of the list.
CloseClip ==
    /\ pc = "close_clips"
    /\ i <= Len(clips)
    /\ calls' = Append(calls, Call("close_clip", clips[i].start, clips[i].end))
    /\ clips' = [clips EXCEPT ![i].closed = TRUE]
    /\ i' = i + 1
    /\ UNCHANGED <<mode, text, parsed, timestamp_ranges, pc, total_duration,
                   video, final_video, concatenated, outcome>>

\* Lines 164-165: return output_path.
Return ==
    /\ pc = "close_clips"
    /\ i > Len(clips)
    /\ pc' = "returned"
    /\ outcome' = "returned"
    /\ UNCHANGED <<mode, text, parsed, timestamp_ranges, total_duration, video,
                   clips, final_video, concatenated, i, calls>>

\* The steps inside the try block of lines 117-165.
InTry == {"open", "loop", "concatenate", "write", "close_video",
          "close_final", "close_clips"}

\* A KeyboardInterrupt inside the try block: no handler of the function
\* catches it (line 167 catches Exception only); main catches it at 309.
Interrupt ==
    /\ pc \in InTry
    /\ Raise("KeyboardInterrupt")
    /\ UNCHANGED <<mode, text, parsed, timestamp_ranges, total_duration, video,
                   clips, final_video, concatenated, i, calls>>

Next ==
    \/ Main
    \/ ValidateInput
    \/ ValidateOutput
    \/ CheckRanges
    \/ OpenVideo
    \/ ExtractClip
    \/ CheckClips
    \/ Concatenate
    \/ WriteOutput
    \/ CloseVideo
    \/ CloseFinal
    \/ CloseClip
    \/ Return
    \/ Interrupt

Spec == Init /\ [][Next]_vars

\* ------------------------------------------------- vocabulary of the claims
Called(op) == \E k \in 1..Len(calls) : calls[k].op = op
CallCount(op) == Cardinality({k \in 1..Len(calls) : calls[k].op = op})
Exited == pc \in {"returned", "raised"}
Opened == video # "none"
ParseDone == parsed.kind # "none"

\* main's text, stripped, and what lies between its brackets.
Stripped == Strip(text)
Bracketed ==
    /\ Stripped # <<>>
    /\ Stripped[1] = "["
    /\ Stripped[Len(Stripped)] = "]"
Interior == IF Bracketed THEN Inner(Stripped) ELSE <<>>
Recognized == FindAll(Interior, 1)
OpenParens == Count(Interior, "(")
PairStart(k) == ToFloat(Recognized[k].start_str)
PairEnd(k) == ToFloat(Recognized[k].end_str)
PairNegative(k) == Less(PairStart(k), Num(0)) \/ Less(PairEnd(k), Num(0))
PairInverted(k) == Leq(PairEnd(k), PairStart(k))
PairValid(k) == ~PairNegative(k) /\ ~PairInverted(k)

NegativeErrors == {"Start time cannot be negative", "End time cannot be negative"}
OrderError == "Start time must be less than end time"
BracketError == "Timestamp ranges must be enclosed in square brackets"
EmptyError == "Timestamp ranges cannot be empty"
NoRangeError == "At least one timestamp range must be provided inside brackets"
FormatError == "Invalid timestamp format"
MalformedError == "Malformed timestamp ranges"
NoClipsError == "No valid clips were extracted from the video"
NoRangesGivenError == "At least one timestamp range must be provided"

\* --------------------------------------------------------------------- C1
\* C1: on every exit of split_and_combine_video reached after the source was
\* opened (return, 'no valid clips', a failure of subclip, concatenation or
\* writing, an interrupt), the source, every subclip made so far and the
\* concatenated clip, if made, are closed.
C1_ReleasedOnEveryExit ==
    (Exited /\ Opened) =>
        /\ video = "closed"
        /\ \A k \in 1..Len(clips) : clips[k].closed
        /\ final_video # "open"

\* --------------------------------------------------------------------- C2
\* The input ranges that start before the duration, in input order.
RECURSIVE Surviving(_, _)
Surviving(ranges, dur) ==
    IF ranges = <<>> THEN <<>>
    ELSE LET r == ranges[1]
             rest == Surviving(Tail(ranges), dur)
         IN  IF Less(r[1], dur)
             THEN <<<<r[1], IF Leq(r[2], dur) THEN r[2] ELSE dur>>>> \o rest
             ELSE rest

StrictlyInside(ranges, dur) ==
    \A k \in 1..Len(ranges) :
        /\ Leq(Num(0), ranges[k][1])
        /\ Less(ranges[k][1], dur)
        /\ Leq(Num(0), ranges[k][2])
        /\ Less(ranges[k][2], dur)

\* C2: the list handed to concatenation is the input sequence without the
\* ranges whose start >= duration, each remaining end replaced by
\* min(end, duration), in input order; with all ranges strictly inside
\* [0, duration) it has as many segments as there are input ranges.
C2_SegmentsAreFilteredClampedInput ==
    Called("concatenate") =>
        /\ concatenated = Surviving(timestamp_ranges, total_duration)
        /\ StrictlyInside(timestamp_ranges, total_duration)
               => Len(concatenated) = Len(timestamp_ranges)

\* A call that skipped the second of two ranges and clamped the first.
C2_Witness ==
    /\ Called("concatenate")
    /\ Len(timestamp_ranges) = 2
    /\ Len(concatenated) = 1
    /\ concatenated[1][1] = timestamp_ranges[1][1]
    /\ concatenated[1][2] = total_duration
    /\ Less(total_duration, timestamp_ranges[1][2])

\* --------------------------------------------------------------------- C3
AllBeyond ==
    \A k \in 1..Len(timestamp_ranges) :
        Leq(total_duration, timestamp_ranges[k][1])

\* C3: once the source is open, if every range starts at or after the
\* duration the call never reaches concatenation or writing and every
\* exception of its own is the 'no valid clips' error (an interrupt is the
\* one other way out); if some range starts before the duration the call
\* never fails with the 'no valid clips' error.
C3_NoValidClipsIffAllBeyond ==
    Opened =>
        /\ AllBeyond =>
               /\ pc \in {"loop", "raised"}
               /\ ~Called("subclip") /\ ~Called("concatenate") /\ ~Called("write")
               /\ pc = "raised" => outcome \in {NoClipsError, "KeyboardInterrupt"}
        /\ ~AllBeyond => outcome # NoClipsError

\* Two ranges, both beyond the end of the source, ended the call.
C3_Witness ==
    /\ Opened
    /\ Len(timestamp_ranges) = 2
    /\ AllBeyond
    /\ pc = "raised"
    /\ outcome = NoClipsError

\* --------------------------------------------------------------------- C4
\* The texts that reach the loop over the matches.
ReachesLoop ==
    /\ Bracketed
    /\ Interior # <<>>
    /\ Recognized # <<>>
    /\ Len(Recognized) = OpenParens

\* C4: when the parser reaches a recognized pair that breaks a semantic
\* rule, the error the caller gets names the rule and the pair's 1-based
\* index: 'cannot be negative' for a negative start or end, 'start must be
\* less than end' for start >= end.
C4_SemanticErrorNamesRule ==
    (ParseDone /\ ReachesLoop) =>
        \A k \in 1..Len(Recognized) :
            (~PairValid(k) /\ \A j \in 1..(k - 1) : PairValid(j)) =>
                /\ parsed.kind = "err"
                /\ parsed.index = k
                /\ PairNegative(k) => parsed.msg \in NegativeErrors
                /\ ~PairNegative(k) => parsed.msg = OrderError

\* --------------------------------------------------------------------- C5
\* C5 as stated: a bracketed text whose interior has a '(' and whose count
\* of recognized tuples differs from its count of '(' fails with the
\* malformed-range error, and no result has fewer ranges than '('.
C5_MismatchIsMalformedError ==
    (ParseDone /\ Bracketed /\ OpenParens >= 1) =>
        /\ Len(Recognized) # OpenParens =>
               parsed.kind = "err" /\ parsed.msg = MalformedError
        /\ parsed.kind = "ok" => Len(parsed.ranges) >= OpenParens

\* C5 as amended: such a text fails and returns no ranges, with the
\* malformed-range error when some tuple was recognized and with the
\* invalid-format error of line 210 when none was; no result has fewer
\* ranges than the interior has '('.
C5_MismatchIsFormatError ==
    (ParseDone /\ Bracketed) =>
        LET tuples == Recognized
            parens == OpenParens
        IN  parens >= 1 =>
                /\ Len(tuples) # parens =>
                       /\ parsed.kind = "err"
                       /\ parsed.ranges = <<>>
                       /\ parsed.msg = IF tuples = <<>> THEN FormatError
                                       ELSE MalformedError
                /\ parsed.kind = "ok" => Len(parsed.ranges) >= parens

\* A text with one recognized tuple and more than one '(' was refused.
C5_Witness ==
    /\ ParseDone
    /\ Bracketed
    /\ Len(Recognized) = 1
    /\ OpenParens > 1
    /\ parsed.msg = MalformedError

\* --------------------------------------------------------------------- C6
\* C6 as stated: every trimmed text that does not both start with '[' and
\* end with ']' fails with the bracket error; every bracketed text with an
\* empty interior fails with the 'at least one range' error.
C6_UnbracketedIsBracketError ==
    ParseDone =>
        /\ ~Bracketed => parsed.kind = "err" /\ parsed.msg = BracketError
        /\ (Bracketed /\ Interior = <<>>) =>
               parsed.kind = "err" /\ parsed.msg = NoRangeError

\* C6 as amended: every non-empty trimmed text that does not both start
\* with '[' and end with ']' fails with the bracket error, whatever it
\* holds; a text that is empty once trimmed fails with the 'cannot be
\* empty' error; every bracketed text with an empty interior fails with the
\* 'at least one range' error; and these errors are raised in no other case
\* and differ from each other and from the format and malformed errors.
C6_StructuralErrorsByPrecedence ==
    ParseDone =>
        /\ (Stripped # <<>> /\ ~Bracketed) <=>
               (parsed.kind = "err" /\ parsed.msg = BracketError)
        /\ Stripped = <<>> <=>
               (parsed.kind = "err" /\ parsed.msg = EmptyError)
        /\ (Bracketed /\ Interior = <<>>) <=>
               (parsed.kind = "err" /\ parsed.msg = NoRangeError)
        /\ Cardinality({BracketError, EmptyError, NoRangeError, FormatError,
                        MalformedError}) = 5

\* A text that opens a bracket, holds a well-formed tuple and never closes
\* the bracket got the bracket error.
C6_Witness ==
    /\ ParseDone
    /\ Stripped # <<>>
    /\ Stripped[1] = "["
    /\ Stripped[Len(Stripped)] = ")"
    /\ FindAll(Stripped, 1) # <<>>
    /\ parsed.msg = BracketError

\* --------------------------------------------------------------------- C7
\* C7: a call of parse_timestamp_ranges fails or returns a non-empty
\* sequence whose ranges are the recognized tuples of the text, in textual
\* order, none added, dropped or reordered, each with 0 <= start < end.
C7_ResultIsRecognizedValidPairs ==
    ParseDone =>
        /\ parsed.kind \in {"ok", "err"}
        /\ parsed.kind = "err" => parsed.ranges = <<>> /\ parsed.msg # ""
        /\ parsed.kind = "ok" =>
               LET tuples == Recognized
               IN  /\ parsed.ranges # <<>>
                   /\ Len(parsed.ranges) = Len(tuples)
                   /\ \A k \in 1..Len(parsed.ranges) :
                          /\ parsed.ranges[k] = <<ToFloat(tuples[k].start_str),
                                                  ToFloat(tuples[k].end_str)>>
                          /\ Leq(Num(0), parsed.ranges[k][1])
                          /\ Less(parsed.ranges[k][1], parsed.ranges[k][2])

\* Two tuples, the second with fractions, came back in textual order.
C7_Witness ==
    /\ parsed.kind = "ok"
    /\ Len(parsed.ranges) = 2
    /\ parsed.ranges[1] = <<Num(0), Num(1)>>
    /\ parsed.ranges[2] = <<[n |-> 5, d |-> 10], Num(1)>>

\* --------------------------------------------------------------------- C8
InCall == pc \notin {"main", "exit"}

\* C8 as stated: a call with an empty range sequence fails with the 'at
\* least one range' error, and nothing was asked of the media library.
C8_EmptyFailsWithAtLeastOneRange ==
    (InCall /\ timestamp_ranges = <<>>) =>
        /\ calls = <<>>
        /\ video = "none"
        /\ Exited => (pc = "raised" /\ outcome = NoRangesGivenError)

\* C8 as amended: a call with an empty range sequence fails before the
\* source is opened, with the error of the path validation of lines 105-106
\* when that fails and with the 'at least one range' error whenever both
\* paths pass it; no open, duration probe, extraction, concatenation or
\* write is performed in that call.
C8_EmptyFailsBeforeOpen ==
    /\ [](  (InCall /\ timestamp_ranges = <<>>) =>
              /\ calls = <<>>
              /\ video = "none"
              /\ pc \in {"validate_input", "validate_output", "check_ranges",
                         "raised"}
              /\ pc = "raised" =>
                     outcome \in PathErrors \cup {NoRangesGivenError}  )
    /\ [][  (pc = "check_ranges" /\ timestamp_ranges = <<>>) =>
              (pc' = "raised" /\ outcome' = NoRangesGivenError)  ]_vars
    /\ [][  (pc \in {"validate_input", "validate_output"}
                /\ timestamp_ranges = <<>> /\ pc' = "raised") =>
              outcome' \in PathErrors  ]_vars

\* The empty sequence was refused with nothing opened.
C8_Witness ==
    /\ timestamp_ranges = <<>>
    /\ pc = "raised"
    /\ outcome = NoRangesGivenError
    /\ calls = <<>>

\* --------------------------------------------------------------------- C9
Rank(op) ==
    CASE op = "open" -> 1
      [] op = "subclip" -> 2
      [] op = "concatenate" -> 3
      [] op = "write" -> 4
      [] OTHER -> 5

\* The subclip requests so far, as <<start, end>> pairs in call order.
RECURSIVE Requests(_)
Requests(log) ==
    IF log = <<>> THEN <<>>
    ELSE (IF log[1].op = "subclip" THEN <<<<log[1].start, log[1].end>>>>
          ELSE <<>>) \o Requests(Tail(log))

IsPrefix(a, b) == Len(a) <= Len(b) /\ a = SubSeq(b, 1, Len(a))

\* C9: within one call the library is used in the order open, subclips (in
\* input order), concatenate, write, close: no subclip before the open or
\* after the concatenation, at most one open, concatenation and write, and
\* no handle closed before the write has completed.
C9_CallsInOrder ==
    /\ \A a, b \in 1..Len(calls) :
           a < b => Rank(calls[a].op) <= Rank(calls[b].op)
    /\ calls # <<>> => calls[1].op = "open"
    /\ CallCount("open") <= 1
    /\ CallCount("concatenate") <= 1
    /\ CallCount("write") <= 1
    /\ IsPrefix(Requests(calls), Surviving(timestamp_ranges, total_duration))
    /\ (video = "closed" \/ final_video = "closed"
            \/ \E k \in 1..Len(clips) : clips[k].closed) =>
           /\ Called("write")
           /\ outcome # "ProcessingError"
           /\ calls[Len(calls)].op # "write"

\* A whole call with two subclips returned.
C9_Witness ==
    /\ pc = "returned"
    /\ Len(clips) = 2
    /\ Len(calls) = 9

\* -------------------------------------------------------------------- C10
\* C10: when main passes the parser's ranges on, every subclip request has
\* 0 <= start < end <= duration, whatever the duration is.
C10_RequestsWithinSource ==
    mode = "cli" =>
        \A k \in 1..Len(calls) :
            calls[k].op = "subclip" =>
                /\ Leq(Num(0), calls[k].start)
                /\ Less(calls[k].start, calls[k].end)
                /\ Leq(calls[k].end, total_duration)

\* A parsed range that ends after the source does was requested clamped.
C10_Witness ==
    /\ mode = "cli"
    /\ \E k \in 1..Len(calls) :
           /\ calls[k].op = "subclip"
           /\ calls[k].end = total_duration
           /\ \E j \in 1..Len(timestamp_ranges) :
                  /\ timestamp_ranges[j][1] = calls[k].start
                  /\ Less(total_duration, timestamp_ranges[j][2])

====
